---- MODULE Spec2Model ----
(***************************************************************************)
(* The three FX pipeline lambdas (Ingest, Transform, Analysis) as one      *)
(* state machine over the external services they talk to: the parameter    *)
(* store, the upstream rate API, the S3 bucket, Athena and CloudWatch.     *)
(* One invocation runs at a time; every handler is cut at its external     *)
(* calls.  Strings that the code formats or parses are sequences of        *)
(* string pieces; rates are fixed-point integers (hundredths).            *)
(***************************************************************************)
EXTENDS Integers, Sequences, FiniteSets, TLC

VARIABLES
    schedule,   \* the run dates (date part of run_date) the scheduler fires for
    store,      \* the S3 bucket: key -> body
    athena,     \* Athena's executions of the current run: QueryExecutionId -> execution
    job,        \* the lambda running or last run: "none", "ingest", "transform", "analysis"
    pc,         \* position inside the handler, "done" once it returned or raised
    event,      \* the invoking event
    loc,        \* the handler's local variables
    result,     \* what the handler returned or raised
    log,        \* logger.error / logger.exception records of the current run
    calls,      \* external calls made by the current run, per service operation
    puts,       \* keys written with put_object by the current run, in order
    published,  \* metric data points sent to CloudWatch by the current run
    store0,     \* the bucket as it was when the current run was invoked
    lastIngest,     \* per run date: payload of the last Ingest run that wrote
    lastTransform   \* per run date: raw data of the last Transform run that wrote

vars == <<schedule, store, athena, job, pc, event, loc, result, log, calls,
          puts, published, store0, lastIngest, lastTransform>>

(***************************************************************************)
(* Bounds of the model.                                                    *)
(***************************************************************************)
\* polls counted per query before the counter saturates
MaxPolls == 3

(***************************************************************************)
(* Text: decimal formatting and parsing.                                   *)
(***************************************************************************)
Digits == <<"0", "1", "2", "3", "4", "5", "6", "7", "8", "9">>

IsDigit(c) == \E i \in 1..10 : Digits[i] = c

DigitVal(c) == (CHOOSE i \in 1..10 : Digits[i] = c) - 1

\* decimal digits of n, for n up to datetime.MAXYEAR
NumDigits(n) == IF n < 10 THEN 1 ELSE IF n < 100 THEN 2 ELSE IF n < 1000 THEN 3 ELSE 4

\* f"{n:0{w}d}": at least w digits, zero-padded on the left
FormatInt(n, w) ==
    LET len == IF NumDigits(n) > w THEN NumDigits(n) ELSE w
    IN  [i \in 1..len |-> Digits[((n \div (10 ^ (len - i))) % 10) + 1]]

\* value of the first k digits of s
RECURSIVE ParsePrefix(_, _)
ParsePrefix(s, k) ==
    IF k = 0 THEN 0 ELSE 10 * ParsePrefix(s, k - 1) + DigitVal(s[k])

\* int(s) for a string of decimal digits
ParseInt(s) == ParsePrefix(s, Len(s))

AllDigits(s) == \A i \in 1..Len(s) : IsDigit(s[i])

(***************************************************************************)
(* datetime: the proleptic Gregorian calendar as the standard library      *)
(* computes it.                                                            *)
(***************************************************************************)
IsLeap(y) == (y % 4 = 0) /\ ((y % 100 # 0) \/ (y % 400 = 0))

DaysInMonth(y, m) ==
    IF m = 2 THEN (IF IsLeap(y) THEN 29 ELSE 28)
    ELSE IF m \in {4, 6, 9, 11} THEN 30 ELSE 31

DaysBeforeYear(y) ==
    (y - 1) * 365 + ((y - 1) \div 4) - ((y - 1) \div 100) + ((y - 1) \div 400)

\* days of a common year before the first of each month
CumulativeDays == <<0, 31, 59, 90, 120, 151, 181, 212, 243, 273, 304, 334>>

DaysBeforeMonth(y, m) == CumulativeDays[m] + (IF m > 2 /\ IsLeap(y) THEN 1 ELSE 0)

\* date.toordinal()
ToOrdinal(dt) == DaysBeforeYear(dt.year) + DaysBeforeMonth(dt.year, dt.month) + dt.day

\* date.weekday(): 0 = Monday ... 6 = Sunday
Weekday(dt) == (ToOrdinal(dt) + 6) % 7

\* dt - timedelta(days=1): the calendar day before, clock time and offset kept
MinusOneDay(dt) ==
    IF dt.day > 1 THEN [dt EXCEPT !.day = dt.day - 1]
    ELSE IF dt.month > 1
         THEN [dt EXCEPT !.month = dt.month - 1,
                         !.day = DaysInMonth(dt.year, dt.month - 1)]
         ELSE [dt EXCEPT !.year = dt.year - 1, !.month = 12, !.day = 31]

\* raw_run_date.replace("Z", "+00:00")
ReplaceZ(s) == [i \in 1..Len(s) |-> IF s[i] = "Z" THEN "+00:00" ELSE s[i]]

\* the strings datetime.fromisoformat accepts: YYYY-MM-DD[Thh:mm:ss[+hh:mm]]
IsIsoFormat(s) ==
    /\ Len(s) \in {10, 12, 13}
    /\ AllDigits(SubSeq(s, 1, 4)) /\ s[5] = "-"
    /\ AllDigits(SubSeq(s, 6, 7)) /\ s[8] = "-"
    /\ AllDigits(SubSeq(s, 9, 10))
    /\ ParseInt(SubSeq(s, 1, 4)) >= 1
    /\ ParseInt(SubSeq(s, 6, 7)) \in 1..12
    /\ ParseInt(SubSeq(s, 9, 10)) \in
           1..DaysInMonth(ParseInt(SubSeq(s, 1, 4)), ParseInt(SubSeq(s, 6, 7)))
    /\ Len(s) >= 12 => s[11] = "T"
    /\ Len(s) = 13 => s[13] # "Z"

\* datetime.fromisoformat(s), for s with IsIsoFormat(s)
FromIsoFormat(s) ==
    [year   |-> ParseInt(SubSeq(s, 1, 4)),
     month  |-> ParseInt(SubSeq(s, 6, 7)),
     day    |-> ParseInt(SubSeq(s, 9, 10)),
     time   |-> IF Len(s) >= 12 THEN s[12] ELSE "00:00:00",
     tzinfo |-> IF Len(s) = 13 THEN s[13] ELSE "None"]

NoDate == [year |-> 0, month |-> 0, day |-> 0, time |-> "", tzinfo |-> ""]

(***************************************************************************)
(* Configuration read from the environment at import time.                 *)
(***************************************************************************)
BASE_CURRENCY == "USD"

TARGET_CURRENCIES == <<"JPY">>

\* [BASE_CURRENCY + c for c in TARGET_CURRENCIES]
TARGET_CURRENCY_CODES ==
    [i \in 1..Len(TARGET_CURRENCIES) |-> <<BASE_CURRENCY, TARGET_CURRENCIES[i]>>]

\* the Analysis lambda's PAIR
PAIR == <<"USD", "JPY">>

(***************************************************************************)
(* JSON documents.  A dict is a record of its values plus the set of the   *)
(* keys it has; quotes is the list of its (pair, rate) entries in order.   *)
(***************************************************************************)
NoData == [fields |-> {}, timestamp |-> 0, source |-> "", quotes |-> <<>>]

Quote(p, r) == [pair |-> p, rate |-> r]

\* key in data["quotes"]
InQuotes(p, quotes) == \E i \in 1..Len(quotes) : quotes[i].pair = p

\* json.dumps(x): the serialised body
json_dumps(x) == [ContentType |-> "application/json", json |-> x]

\* json.loads(body)
json_loads(body) == body.json

(***************************************************************************)
(* What the world outside can answer.                                      *)
(***************************************************************************)
ApiFields == {"success", "terms", "timestamp", "source", "quotes"}

\* bodies the rate provider may answer with status 200
ApiResponses ==
    { [fields |-> ApiFields, timestamp |-> 1705276800, source |-> "USD",
       quotes |-> <<Quote(<<"USD", "JPY">>, 15000), Quote(<<"USD", "EUR">>, 90)>>],
      [fields |-> ApiFields, timestamp |-> 1705363200, source |-> "USD",
       quotes |-> <<Quote(<<"USD", "JPY">>, 0)>>],
      [fields |-> ApiFields, timestamp |-> 1705363200, source |-> "USD",
       quotes |-> <<Quote(<<"USD", "EUR">>, 90)>>],
      [fields |-> {"success", "timestamp", "source"}, timestamp |-> 1705363200,
       source |-> "USD", quotes |-> <<>>],
      [fields |-> {"success", "error"}, timestamp |-> 0, source |-> "",
       quotes |-> <<>>] }

\* HTTP outcomes of urlopen: a status, or "URLError" when the call itself fails
HttpOutcomes == {"200", "204", "URLError"}

\* the ways a run_date is written for one calendar day
TimeForms ==
    { <<"T", "12:00:00", "Z">>,
      <<"T", "00:30:00", "+09:00">> }

\* the scheduler's windows: two consecutive run dates
Schedules ==
    { { <<"2","0","2","4","-","0","1","-","1","5">>, <<"2","0","2","4","-","0","1","-","1","6">> },
      { <<"2","0","2","4","-","0","2","-","2","9">>, <<"2","0","2","4","-","0","3","-","0","1">> },
      { <<"2","0","2","3","-","1","2","-","3","1">>, <<"2","0","2","4","-","0","1","-","0","1">> },
      { <<"2","0","2","5","-","0","3","-","0","1">>, <<"2","0","2","5","-","0","3","-","0","2">> } }

\* events the handlers are invoked with: a run_date of the window in any
\* form, one that is no calendar day, or none at all
Events(sched) ==
    { [has_run_date |-> TRUE, run_date |-> d \o t] : d \in sched, t \in TimeForms }
    \cup { [has_run_date |-> TRUE,
            run_date |-> <<"2","0","2","4","-","0","2","-","3","0">>],
           [has_run_date |-> FALSE, run_date |-> <<>>] }

NoEvent == [has_run_date |-> FALSE, run_date |-> <<>>]

\* the date part of an event's run_date
DatePart(e) == SubSeq(e.run_date, 1, 10)

(***************************************************************************)
(* Results, locals and bookkeeping of a run.                               *)
(***************************************************************************)
NoResult == [kind |-> "none"]

Raised(type, msg) == [kind |-> "raise", type |-> type, msg |-> msg]

NoLoc ==
    [api_key |-> "", fx_data |-> NoData, filtered_data |-> NoData,
     year |-> <<>>, month |-> <<>>, day |-> <<>>, fx_dt |-> NoDate,
     year_pd |-> <<>>, month_pd |-> <<>>, day_pd |-> <<>>,
     s3_key |-> <<>>, data |-> NoData, i |-> 0, written_files |-> <<>>,
     which |-> "", qid |-> 0, status |-> "", observed |-> <<>>,
     got |-> {}, todays_rate |-> 0, yesterdays_rate |-> 0,
     deviation |-> [num |-> 0, den |-> 1]]

Queries == {"today", "yesterday"}

NoCalls ==
    [get_parameter |-> 0, urlopen |-> 0, get_object |-> 0,
     start_query_execution |-> [q \in Queries |-> 0],
     get_query_results |-> [q \in Queries |-> 0],
     put_metric_data |-> 0]

\* a handler ends by raising: the run is over, nothing else changes
Raise(type, msg) ==
    /\ result' = Raised(type, msg)
    /\ pc' = "done"

(***************************************************************************)
(* The bucket.                                                             *)
(***************************************************************************)
\* s3.put_object(Bucket, Key, Body): an overwrite, no versioning
put_object(s, key, body) ==
    [k \in (DOMAIN s) \cup {key} |-> IF k = key THEN body ELSE s[k]]

(***************************************************************************)
(* Ingest: lambda-fx-ingest-function.py                                    *)
(***************************************************************************)
\* event["run_date"] is absent or the string parses to no datetime
RunDateFails(e) == ~e.has_run_date \/ ~IsIsoFormat(ReplaceZ(e.run_date))

RunDateError(e) ==
    IF ~e.has_run_date THEN Raised("KeyError", <<"run_date">>)
    ELSE Raised("ValueError", <<"Invalid isoformat string">>)

\* get_run_date keeping the clock time in the day component
ingest_get_run_date_clock(e) ==
    LET dt    == FromIsoFormat(ReplaceZ(e.run_date))
        fx_dt == MinusOneDay(dt)
    IN  [year  |-> FormatInt(fx_dt.year, 4),
         month |-> FormatInt(fx_dt.month, 2),
         day   |-> FormatInt(fx_dt.day, 2) \o <<"T", fx_dt.time>>]

ingest_get_run_date(e) ==
    LET dt    == FromIsoFormat(ReplaceZ(e.run_date))
        fx_dt == MinusOneDay(dt)
    IN  [year  |-> FormatInt(fx_dt.year, 4),
         month |-> FormatInt(fx_dt.month, 2),
         day   |-> FormatInt(fx_dt.day, 2)]

required_fields == <<"timestamp", "source", "quotes">>

\* the first position among S a for-loop reaches, 0 when S is empty
First(S) == IF S = {} THEN 0 ELSE CHOOSE i \in S : \A j \in S : i <= j

\* validate_fx_data without the loop over TARGET_CURRENCY_CODES
ingest_validate_fx_data_fields_only(data) ==
    LET f == First({i \in 1..Len(required_fields) :
                        required_fields[i] \notin data.fields})
    IN  IF f # 0
        THEN Raised("ValueError", <<"Missing required field: ", required_fields[f]>>)
        ELSE NoResult

\* validate_fx_data of Ingest: the error it raises, or NoResult when it passes
ingest_validate_fx_data(data) ==
    LET f == First({i \in 1..Len(required_fields) :
                        required_fields[i] \notin data.fields})
        c == First({i \in 1..Len(TARGET_CURRENCY_CODES) :
                        ~InQuotes(TARGET_CURRENCY_CODES[i], data.quotes)})
    IN  IF f # 0
        THEN Raised("ValueError", <<"Missing required field: ", required_fields[f]>>)
        ELSE IF c # 0
        THEN Raised("ValueError",
                    <<"Missing FX quote for: ">> \o TARGET_CURRENCY_CODES[c])
        ELSE NoResult

\* data.get(field) is None for an absent field
filter_fx_data(data) ==
    [fields    |-> {"timestamp", "source", "quotes"},
     timestamp |-> IF "timestamp" \in data.fields THEN data.timestamp ELSE 0,
     source    |-> IF "source" \in data.fields THEN data.source ELSE "",
     quotes    |-> IF "quotes" \in data.fields THEN data.quotes ELSE <<>>]

ingest_build_s3_key(year, month, day) ==
    <<"raw/", "year=">> \o year \o <<"/month=">> \o month \o <<"/day=">> \o day
        \o <<"/rates.json">>

\* the handler's except clause: logger.exception, then the error is re-raised
IngestFail(err) ==
    /\ result' = err
    /\ pc' = "done"
    /\ log' = Append(log, <<"FX ingestion failed">>)

InvokeIngest ==
    /\ pc = "done"
    /\ \E e \in Events(schedule) : event' = e
    /\ job' = "ingest"
    /\ pc' = "get_api_key"
    /\ loc' = NoLoc
    /\ result' = NoResult
    /\ log' = <<>>
    /\ calls' = NoCalls
    /\ puts' = <<>>
    /\ published' = <<>>
    /\ athena' = <<>>
    /\ store0' = store
    /\ UNCHANGED <<schedule, store, lastIngest, lastTransform>>

\* get_api_key(): ssm.get_parameter answers with the secret or refuses
IngestGetApiKey ==
    /\ job = "ingest" /\ pc = "get_api_key"
    /\ calls' = [calls EXCEPT !.get_parameter = @ + 1]
    /\ \E granted \in BOOLEAN :
        IF granted
        THEN /\ loc' = [loc EXCEPT !.api_key = "access_key"]
             /\ pc' = "fetch_fx_rates"
             /\ UNCHANGED <<result, log>>
        ELSE /\ IngestFail(Raised("ClientError", <<"AccessDeniedException">>))
             /\ UNCHANGED loc
    /\ UNCHANGED <<schedule, store, athena, job, event, puts, published, store0,
                   lastIngest, lastTransform>>

\* fetch_fx_rates(api_key)
IngestFetch ==
    /\ job = "ingest" /\ pc = "fetch_fx_rates"
    /\ calls' = [calls EXCEPT !.urlopen = @ + 1]
    /\ \E status \in HttpOutcomes :
        IF status = "URLError"
        THEN /\ IngestFail(Raised("URLError", <<"timed out">>))
             /\ UNCHANGED loc
        ELSE IF status # "200"
        THEN /\ IngestFail(Raised("RuntimeError", <<"FX API returned status ", status>>))
             /\ UNCHANGED loc
        ELSE \E body \in ApiResponses :
             /\ loc' = [loc EXCEPT !.fx_data = body]
             /\ pc' = "validate_fx_data"
             /\ UNCHANGED <<result, log>>
    /\ UNCHANGED <<schedule, store, athena, job, event, puts, published, store0,
                   lastIngest, lastTransform>>

\* validate_fx_data(fx_data); filtered_data = filter_fx_data(fx_data)
IngestValidate ==
    /\ job = "ingest" /\ pc = "validate_fx_data"
    /\ LET err == ingest_validate_fx_data(loc.fx_data)
       IN  IF err # NoResult
           THEN /\ IngestFail(err)
                /\ UNCHANGED loc
           ELSE /\ loc' = [loc EXCEPT !.filtered_data = filter_fx_data(loc.fx_data)]
                /\ pc' = "get_run_date"
                /\ UNCHANGED <<result, log>>
    /\ UNCHANGED <<schedule, store, athena, job, event, calls, puts, published,
                   store0, lastIngest, lastTransform>>

\* year, month, day = get_run_date(event); s3_key = build_s3_key(year, month, day)
IngestResolve ==
    /\ job = "ingest" /\ pc = "get_run_date"
    /\ IF RunDateFails(event)
       THEN /\ IngestFail(RunDateError(event))
            /\ UNCHANGED loc
       ELSE \E d \in {ingest_get_run_date(event)} :
                /\ loc' = [loc EXCEPT !.year = d.year, !.month = d.month, !.day = d.day,
                                      !.s3_key = ingest_build_s3_key(d.year, d.month, d.day)]
                /\ pc' = "write_to_s3"
                /\ UNCHANGED <<result, log>>
    /\ UNCHANGED <<schedule, store, athena, job, event, calls, puts, published,
                   store0, lastIngest, lastTransform>>

\* write_to_s3(s3_key, filtered_data): the put succeeds or the service refuses it
IngestWrite ==
    /\ job = "ingest" /\ pc = "write_to_s3"
    /\ \E stored \in BOOLEAN :
        IF stored
        THEN /\ store' = put_object(store, loc.s3_key, json_dumps(loc.filtered_data))
             /\ puts' = Append(puts, loc.s3_key)
             /\ pc' = "return"
             /\ UNCHANGED <<result, log>>
        ELSE /\ IngestFail(Raised("ClientError", <<"PutObject">>))
             /\ UNCHANGED <<store, puts>>
    /\ UNCHANGED <<schedule, athena, job, event, loc, calls, published, store0,
                   lastIngest, lastTransform>>

IngestReturn ==
    /\ job = "ingest" /\ pc = "return"
    /\ result' = [kind |-> "return", statusCode |-> 200,
                  message |-> "FX data ingested successfully",
                  s3_key |-> loc.s3_key]
    /\ pc' = "done"
    /\ lastIngest' = [lastIngest EXCEPT ![DatePart(event)] = loc.fx_data]
    /\ UNCHANGED <<schedule, store, athena, job, event, loc, log, calls, puts,
                   published, store0, lastTransform>>

(***************************************************************************)
(* Transform: lambda-fx-transform-function.py                              *)
(***************************************************************************)
transform_get_run_date(e) ==
    LET dt    == FromIsoFormat(ReplaceZ(e.run_date))
        fx_dt == MinusOneDay(dt)
    IN  [year  |-> FormatInt(fx_dt.year, 4),
         month |-> FormatInt(fx_dt.month, 2),
         day   |-> FormatInt(fx_dt.day, 2),
         fx_dt |-> fx_dt]

transform_build_s3_key(year, month, day) ==
    <<"raw/", "year=">> \o year \o <<"/month=">> \o month \o <<"/day=">> \o day
        \o <<"/rates.json">>

\* key.startswith(prefix)
StartsWith(key, prefix) ==
    Len(key) >= Len(prefix) /\ SubSeq(key, 1, Len(prefix)) = prefix

\* validate_fx_data of Transform: required fields only
transform_validate_fx_data(data) ==
    LET f == First({i \in 1..Len(required_fields) :
                        required_fields[i] \notin data.fields})
    IN  IF f # 0
        THEN Raised("ValueError", <<"Missing required field: ", required_fields[f]>>)
        ELSE NoResult

\* is_weekday with the comparison off by one: Saturday counts as a weekday
is_weekday_with_saturday(fx_dt) == Weekday(fx_dt) <= 5

\* outputs true for weekday and false for weekends
is_weekday(fx_dt) == Weekday(fx_dt) < 5

\* the record normalize_and_write builds for one entry of quotes
normalize_record(quote, year, month, day, fx_dt) ==
    [pair        |-> quote.pair,
     rate        |-> quote.rate,
     date        |-> year \o <<"-">> \o month \o <<"-">> \o day,
     market_open |-> is_weekday(fx_dt)]

\* write_key of normalize_and_write
transform_write_key(pair, year, month, day) ==
    <<"processed/", "pair=">> \o pair \o <<"/year=">> \o year \o <<"/month=">> \o month
        \o <<"/day=">> \o day \o <<"/data.json">>

\* a Transform run that wrote part of its output
PartialRun == [NoData EXCEPT !.fields = {"<partial>"}]

InvokeTransform ==
    /\ pc = "done"
    /\ \E e \in Events(schedule) : event' = e
    /\ job' = "transform"
    /\ pc' = "get_run_date"
    /\ loc' = NoLoc
    /\ result' = NoResult
    /\ log' = <<>>
    /\ calls' = NoCalls
    /\ puts' = <<>>
    /\ published' = <<>>
    /\ athena' = <<>>
    /\ store0' = store
    /\ UNCHANGED <<schedule, store, lastIngest, lastTransform>>

\* get_run_date, build_s3_key and the guard on the key's prefix
TransformResolve ==
    /\ job = "transform" /\ pc = "get_run_date"
    /\ IF RunDateFails(event)
       THEN /\ Raise(RunDateError(event).type, RunDateError(event).msg)
            /\ UNCHANGED loc
       ELSE \E d \in {transform_get_run_date(event)} :
            \E read_key \in {transform_build_s3_key(d.year, d.month, d.day)} :
                /\ loc' = [loc EXCEPT !.year = d.year, !.month = d.month, !.day = d.day,
                                      !.fx_dt = d.fx_dt, !.s3_key = read_key]
                /\ IF ~StartsWith(read_key, <<"raw/">>)
                   THEN /\ result' = [kind |-> "return", value |-> "None"]
                        /\ pc' = "done"
                   ELSE /\ pc' = "read_raw_object"
                        /\ UNCHANGED result
    /\ UNCHANGED <<schedule, store, athena, job, event, log, calls, puts, published,
                   store0, lastIngest, lastTransform>>

\* read_raw_object(read_key): s3.get_object fails for a key the bucket lacks
TransformRead ==
    /\ job = "transform" /\ pc = "read_raw_object"
    /\ calls' = [calls EXCEPT !.get_object = @ + 1]
    /\ IF loc.s3_key \notin DOMAIN store
       THEN /\ Raise("ClientError", <<"NoSuchKey">>)
            /\ UNCHANGED loc
       ELSE /\ loc' = [loc EXCEPT !.data = json_loads(store[loc.s3_key])]
            /\ pc' = "validate_fx_data"
            /\ UNCHANGED result
    /\ UNCHANGED <<schedule, store, athena, job, event, log, puts, published,
                   store0, lastIngest, lastTransform>>

TransformValidate ==
    /\ job = "transform" /\ pc = "validate_fx_data"
    /\ LET err == transform_validate_fx_data(loc.data)
       IN  IF err # NoResult
           THEN /\ Raise(err.type, err.msg)
                /\ UNCHANGED loc
           ELSE /\ loc' = [loc EXCEPT !.i = 1]
                /\ pc' = "normalize_and_write"
                /\ UNCHANGED result
    /\ UNCHANGED <<schedule, store, athena, job, event, log, calls, puts, published,
                   store0, lastIngest, lastTransform>>

\* one iteration of the loop over quotes.items(): a put that succeeds or is refused
TransformWriteOne ==
    /\ job = "transform" /\ pc = "normalize_and_write"
    /\ loc.i <= Len(loc.data.quotes)
    /\ LET quote     == loc.data.quotes[loc.i]
           record    == normalize_record(quote, loc.year, loc.month, loc.day, loc.fx_dt)
           write_key == transform_write_key(quote.pair, loc.year, loc.month, loc.day)
       IN  \E stored \in BOOLEAN :
            IF stored
            THEN /\ store' = put_object(store, write_key, json_dumps(record))
                 /\ puts' = Append(puts, write_key)
                 /\ loc' = [loc EXCEPT !.written_files = Append(@, write_key),
                                       !.i = @ + 1]
                 /\ lastTransform' =
                        [lastTransform EXCEPT ![DatePart(event)] =
                            IF @ = loc.data THEN @ ELSE PartialRun]
                 /\ UNCHANGED <<pc, result>>
            ELSE /\ Raise("ClientError", <<"PutObject">>)
                 /\ UNCHANGED <<store, puts, loc, lastTransform>>
    /\ UNCHANGED <<schedule, athena, job, event, log, calls, published, store0,
                   lastIngest>>

\* the loop is over: return statusCode and files_written
TransformReturn ==
    /\ job = "transform" /\ pc = "normalize_and_write"
    /\ loc.i > Len(loc.data.quotes)
    /\ result' = [kind |-> "return", statusCode |-> 200,
                  files_written |-> loc.written_files]
    /\ pc' = "done"
    /\ lastTransform' = [lastTransform EXCEPT ![DatePart(event)] = loc.data]
    /\ UNCHANGED <<schedule, store, athena, job, event, loc, log, calls, puts,
                   published, store0, lastIngest>>

(***************************************************************************)
(* Athena: executions and the table over the processed/ objects.  To the    *)
(* code QUEUED and RUNNING are one state, not terminal; it is RUNNING here. *)
(***************************************************************************)
NoReason == "<absent>"

Terminal == {"SUCCEEDED", "FAILED", "CANCELLED"}

\* how an execution can end: state and StateChangeReason (which may be absent)
Endings ==
    { [state |-> "SUCCEEDED", reason |-> NoReason],
      [state |-> "FAILED",    reason |-> "HIVE_BAD_DATA: malformed JSON"],
      [state |-> "CANCELLED", reason |-> NoReason] }

\* position of piece x in key k, 0 when absent
IndexOf(k, x) == First({i \in 1..Len(k) : k[i] = x})

\* value of the partition column after marker `from`, up to marker `to`
PartitionValue(k, from, to) == SubSeq(k, IndexOf(k, from) + 1, IndexOf(k, to) - 1)

\* the objects the table covers: processed/pair=../year=../month=../day=../data.json
TableKeys(s) ==
    {k \in DOMAIN s :
        /\ StartsWith(k, <<"processed/", "pair=">>)
        /\ IndexOf(k, "/year=") # 0 /\ IndexOf(k, "/month=") # 0
        /\ IndexOf(k, "/day=") # 0 /\ IndexOf(k, "/data.json") # 0}

\* SELECT rate ... WHERE pair = .. AND market_open = true AND year/month/day = ..
Matches(s, k, q) ==
    /\ PartitionValue(k, "pair=", "/year=") = q.pair
    /\ json_loads(s[k]).market_open = q.market_open
    /\ PartitionValue(k, "/year=", "/month=") = q.year
    /\ PartitionValue(k, "/month=", "/day=") = q.month
    /\ PartitionValue(k, "/day=", "/data.json") = q.day

RECURSIVE RowsOf(_, _)
RowsOf(s, K) ==
    IF K = {} THEN <<>>
    ELSE LET k == CHOOSE x \in K : TRUE
         IN  <<[VarCharValue |-> json_loads(s[k]).rate]>> \o RowsOf(s, K \ {k})

\* athena.get_query_results: Rows, row 0 the header
get_query_results(s, q) ==
    <<[VarCharValue |-> "rate"]>> \o RowsOf(s, {k \in TableKeys(s) : Matches(s, k, q)})

(***************************************************************************)
(* Analysis: lambda-fx-analysis-function.py                                *)
(***************************************************************************)
\* dt.astimezone(timezone.utc)
ToUtc(dt) ==
    IF dt.tzinfo = "+09:00" /\ dt.time = "00:30:00"
    THEN [MinusOneDay(dt) EXCEPT !.time = "15:30:00", !.tzinfo = "+00:00"]
    ELSE dt

\* get_run_date normalising the run_date to UTC before stepping back a day
analysis_get_run_date_utc(e) ==
    LET dt    == ToUtc(FromIsoFormat(ReplaceZ(e.run_date)))
        fx_dt == MinusOneDay(dt)
    IN  [year  |-> FormatInt(fx_dt.year, 4),
         month |-> FormatInt(fx_dt.month, 2),
         day   |-> FormatInt(fx_dt.day, 2),
         fx_dt |-> fx_dt]

analysis_get_run_date(e) ==
    LET dt    == FromIsoFormat(ReplaceZ(e.run_date))
        fx_dt == MinusOneDay(dt)
    IN  [year  |-> FormatInt(fx_dt.year, 4),
         month |-> FormatInt(fx_dt.month, 2),
         day   |-> FormatInt(fx_dt.day, 2),
         fx_dt |-> fx_dt]

get_yesterdays_date(fx_dt) ==
    LET dt_pd == MinusOneDay(fx_dt)
    IN  [year_pd  |-> FormatInt(dt_pd.year, 4),
         month_pd |-> FormatInt(dt_pd.month, 2),
         day_pd   |-> FormatInt(dt_pd.day, 2)]

\* is_weekend with the comparison off by one: Saturday passes as a trading day
is_weekend_sunday_only(fx_dt) == Weekday(fx_dt) > 5

\* outputs true for weekend and false for weekdays
is_weekend(fx_dt) == Weekday(fx_dt) >= 5

\* the query text of get_todays_rate / get_yesterdays_rate
rate_query(year, month, day) ==
    [pair |-> PAIR, market_open |-> TRUE, year |-> year, month |-> month, day |-> day]

\* the message of the exception each of the two raises on a failed query
failed_message(which) ==
    IF which = "today" THEN <<"Athena query for todays rate failed">>
    ELSE <<"Athena query for daily average failed">>

\* the reason lookup reading a key the response never has
state_change_reason_lost(execution) == "Unknown"

\* response["QueryExecution"]["Status"].get("StateChangeReason", "Unknown")
state_change_reason(execution) ==
    IF execution.reason = NoReason THEN "Unknown" ELSE execution.reason

\* wait_for_query returning whatever the first poll reports
is_terminal_any(status) == TRUE

\* wait_for_query waiting for success only
is_terminal_succeeded_only(status) == status = "SUCCEEDED"

\* wait_for_query: status in ("SUCCEEDED", "FAILED", "CANCELLED")
is_terminal(status) == status \in {"SUCCEEDED", "FAILED", "CANCELLED"}

\* the status test with CANCELLED forgotten
query_failed_only_failed(status) == status = "FAILED"

\* get_todays_rate / get_yesterdays_rate: status != "SUCCEEDED"
query_failed(status) == status # "SUCCEEDED"

\* the last MaxPolls statuses a wait_for_query loop has seen
Observe(observed, status) ==
    IF Len(observed) < MaxPolls THEN Append(observed, status)
    ELSE Append(Tail(observed), status)

SkipResult == [kind |-> "return", status |-> "skipped", reason |-> "weekend"]

InvokeAnalysis ==
    /\ pc = "done"
    /\ \E e \in Events(schedule) : event' = e
    /\ job' = "analysis"
    /\ pc' = "get_run_date"
    /\ loc' = NoLoc
    /\ result' = NoResult
    /\ log' = <<>>
    /\ calls' = NoCalls
    /\ puts' = <<>>
    /\ published' = <<>>
    /\ athena' = <<>>
    /\ store0' = store
    /\ UNCHANGED <<schedule, store, lastIngest, lastTransform>>

\* get_run_date, get_yesterdays_date and the weekend guard
AnalysisResolve ==
    /\ job = "analysis" /\ pc = "get_run_date"
    /\ IF RunDateFails(event)
       THEN /\ Raise(RunDateError(event).type, RunDateError(event).msg)
            /\ UNCHANGED loc
       ELSE \E d \in {analysis_get_run_date(event)} :
            \E pd \in {get_yesterdays_date(d.fx_dt)} :
                /\ loc' = [loc EXCEPT !.year = d.year, !.month = d.month, !.day = d.day,
                                      !.fx_dt = d.fx_dt, !.year_pd = pd.year_pd,
                                      !.month_pd = pd.month_pd, !.day_pd = pd.day_pd,
                                      !.which = "today"]
                /\ IF is_weekend(d.fx_dt)
                   THEN /\ result' = SkipResult
                        /\ pc' = "done"
                   ELSE /\ pc' = "start_query"
                        /\ UNCHANGED result
    /\ UNCHANGED <<schedule, store, athena, job, event, log, calls, puts, published,
                   store0, lastIngest, lastTransform>>

\* qid = start_query(query)
AnalysisStartQuery ==
    /\ job = "analysis" /\ pc = "start_query"
    /\ LET query == IF loc.which = "today"
                    THEN rate_query(loc.year, loc.month, loc.day)
                    ELSE rate_query(loc.year_pd, loc.month_pd, loc.day_pd)
       IN  athena' = Append(athena, [query |-> query, state |-> "RUNNING",
                                     reason |-> NoReason])
    /\ calls' = [calls EXCEPT !.start_query_execution[loc.which] = @ + 1]
    /\ loc' = [loc EXCEPT !.qid = Len(athena) + 1, !.observed = <<>>, !.status = ""]
    /\ pc' = "wait_for_query"
    /\ UNCHANGED <<schedule, store, job, event, result, log, puts, published,
                   store0, lastIngest, lastTransform>>

\* one round of wait_for_query's loop: get_query_execution, then return the
\* terminal status (logging the reason of a failure) or sleep and go round
AnalysisPoll ==
    /\ job = "analysis" /\ pc = "wait_for_query"
    /\ LET execution == athena[loc.qid]
           status    == execution.state
       IN  IF is_terminal(status)
           THEN /\ loc' = [loc EXCEPT !.observed = Observe(@, status),
                                      !.status = status]
                /\ log' = IF status # "SUCCEEDED"
                          THEN Append(log, <<"Athena query failed: ",
                                             state_change_reason(execution)>>)
                          ELSE log
                /\ pc' = "check_status"
           ELSE /\ loc' = [loc EXCEPT !.observed = Observe(@, status)]
                /\ UNCHANGED <<log, pc>>
    /\ UNCHANGED <<schedule, store, athena, job, event, result, calls, puts,
                   published, store0, lastIngest, lastTransform>>

\* if status != "SUCCEEDED": raise Exception(...)
AnalysisCheckStatus ==
    /\ job = "analysis" /\ pc = "check_status"
    /\ IF query_failed(loc.status)
       THEN Raise("Exception", failed_message(loc.which))
       ELSE /\ pc' = "get_single_value"
            /\ UNCHANGED result
    /\ UNCHANGED <<schedule, store, athena, job, event, loc, log, calls, puts,
                   published, store0, lastIngest, lastTransform>>

\* return get_single_value(qid): float(rows[1]["Data"][0]["VarCharValue"])
AnalysisGetSingleValue ==
    /\ job = "analysis" /\ pc = "get_single_value"
    /\ calls' = [calls EXCEPT !.get_query_results[loc.which] = @ + 1]
    /\ LET rows == get_query_results(store, athena[loc.qid].query)
       IN  IF Len(rows) < 2
           THEN /\ Raise("IndexError", <<"list index out of range">>)
                /\ UNCHANGED loc
           ELSE /\ loc' = IF loc.which = "today"
                          THEN [loc EXCEPT !.todays_rate = rows[2].VarCharValue,
                                           !.got = @ \cup {"today"},
                                           !.which = "yesterday"]
                          ELSE [loc EXCEPT !.yesterdays_rate = rows[2].VarCharValue,
                                           !.got = @ \cup {"yesterday"}]
                /\ pc' = IF loc.which = "today" THEN "start_query" ELSE "deviation"
                /\ UNCHANGED result
    /\ UNCHANGED <<schedule, store, athena, job, event, log, puts, published,
                   store0, lastIngest, lastTransform>>

Abs(x) == IF x < 0 THEN -x ELSE x

\* deviation = abs(todays_rate - yesterdays_rate) / yesterdays_rate, as a fraction
AnalysisDeviation ==
    /\ job = "analysis" /\ pc = "deviation"
    /\ IF loc.yesterdays_rate = 0
       THEN /\ Raise("ZeroDivisionError", <<"float division by zero">>)
            /\ UNCHANGED loc
       ELSE /\ loc' = [loc EXCEPT !.deviation =
                          [num |-> Abs(loc.todays_rate - loc.yesterdays_rate),
                           den |-> loc.yesterdays_rate]]
            /\ pc' = "publish_metric"
            /\ UNCHANGED result
    /\ UNCHANGED <<schedule, store, athena, job, event, log, calls, puts, published,
                   store0, lastIngest, lastTransform>>

\* publish_metric(deviation): Value = deviation * 100, Unit = Percent
AnalysisPublish ==
    /\ job = "analysis" /\ pc = "publish_metric"
    /\ published' = Append(published,
                           [Namespace  |-> "FX/Analysis",
                            MetricName |-> PAIR \o <<"Deviation">>,
                            Value      |-> [loc.deviation EXCEPT !.num = @ * 100],
                            Unit       |-> "Percent"])
    /\ calls' = [calls EXCEPT !.put_metric_data = @ + 1]
    /\ pc' = "return"
    /\ UNCHANGED <<schedule, store, athena, job, event, loc, result, log, puts,
                   store0, lastIngest, lastTransform>>

AnalysisReturn ==
    /\ job = "analysis" /\ pc = "return"
    /\ result' = [kind |-> "return", pair |-> PAIR,
                  todays_rate |-> loc.todays_rate,
                  yesterdays_rate |-> loc.yesterdays_rate,
                  deviation |-> loc.deviation]
    /\ pc' = "done"
    /\ UNCHANGED <<schedule, store, athena, job, event, loc, log, calls, puts,
                   published, store0, lastIngest, lastTransform>>

\* Athena ends an execution
AthenaFinish ==
    /\ \E id \in DOMAIN athena :
        /\ athena[id].state \notin Terminal
        /\ \E end \in Endings :
            athena' = [athena EXCEPT ![id].state = end.state, ![id].reason = end.reason]
    /\ UNCHANGED <<schedule, store, job, pc, event, loc, result, log, calls, puts,
                   published, store0, lastIngest, lastTransform>>

(***************************************************************************)
(* The system.                                                             *)
(***************************************************************************)
Init ==
    /\ schedule \in Schedules
    /\ store = <<>>
    /\ athena = <<>>
    /\ job = "none"
    /\ pc = "done"
    /\ event = NoEvent
    /\ loc = NoLoc
    /\ result = NoResult
    /\ log = <<>>
    /\ calls = NoCalls
    /\ puts = <<>>
    /\ published = <<>>
    /\ store0 = <<>>
    /\ lastIngest = [d \in schedule |-> NoData]
    /\ lastTransform = [d \in schedule |-> NoData]

Next ==
    \/ InvokeIngest \/ IngestGetApiKey \/ IngestFetch \/ IngestValidate
    \/ IngestResolve \/ IngestWrite \/ IngestReturn
    \/ InvokeTransform \/ TransformResolve \/ TransformRead \/ TransformValidate
    \/ TransformWriteOne \/ TransformReturn
    \/ InvokeAnalysis \/ AnalysisResolve \/ AnalysisStartQuery \/ AnalysisPoll
    \/ AnalysisCheckStatus \/ AnalysisGetSingleValue \/ AnalysisDeviation
    \/ AnalysisPublish \/ AnalysisReturn
    \/ AthenaFinish

Spec == Init /\ [][Next]_vars

(***************************************************************************)
(* Analysis alone, over the buckets the pipeline leaves behind: for each   *)
(* run date of the schedule either nothing, or the objects of one Ingest   *)
(* and one Transform run on a payload that validates.                      *)
(***************************************************************************)
RECURSIVE WriteAll(_, _, _, _)
WriteAll(s, quotes, i, t) ==
    IF i > Len(quotes) THEN s
    ELSE WriteAll(put_object(s,
                             transform_write_key(quotes[i].pair, t.year, t.month, t.day),
                             json_dumps(normalize_record(quotes[i], t.year, t.month,
                                                         t.day, t.fx_dt))),
                  quotes, i + 1, t)

\* the bucket after Ingest and Transform ran for run date d on payload
PipelineRun(s, d, payload) ==
    LET e   == [has_run_date |-> TRUE, run_date |-> d \o <<"T", "12:00:00", "Z">>]
        i   == ingest_get_run_date(e)
        t   == transform_get_run_date(e)
        raw == put_object(s, ingest_build_s3_key(i.year, i.month, i.day),
                          json_dumps(filter_fx_data(payload)))
    IN  IF payload = NoData THEN s ELSE WriteAll(raw, payload.quotes, 1, t)

RECURSIVE PipelineRuns(_, _, _)
PipelineRuns(s, D, f) ==
    IF D = {} THEN s
    ELSE LET d == CHOOSE x \in D : TRUE
         IN  PipelineRuns(PipelineRun(s, d, f[d]), D \ {d}, f)

ValidResponses == {r \in ApiResponses : ingest_validate_fx_data(r) = NoResult}

LiveInit ==
    /\ schedule \in Schedules
    /\ \E f \in [schedule -> ValidResponses \cup {NoData}] :
        /\ store = PipelineRuns(<<>>, schedule, f)
        /\ lastIngest = f
        /\ lastTransform = [d \in schedule |->
                               IF f[d] = NoData THEN NoData ELSE filter_fx_data(f[d])]
    /\ athena = <<>>
    /\ job = "none"
    /\ pc = "done"
    /\ event = NoEvent
    /\ loc = NoLoc
    /\ result = NoResult
    /\ log = <<>>
    /\ calls = NoCalls
    /\ puts = <<>>
    /\ published = <<>>
    /\ store0 = <<>>

AnalysisRuns ==
    \/ AnalysisResolve \/ AnalysisStartQuery \/ AnalysisPoll \/ AnalysisCheckStatus
    \/ AnalysisGetSingleValue \/ AnalysisDeviation \/ AnalysisPublish \/ AnalysisReturn

LiveNext ==
    \/ InvokeAnalysis \/ AnalysisResolve \/ AnalysisStartQuery \/ AnalysisPoll
    \/ AnalysisCheckStatus \/ AnalysisGetSingleValue \/ AnalysisDeviation
    \/ AnalysisPublish \/ AnalysisReturn
    \/ AthenaFinish

\* the lambda runtime keeps executing a handler it started, and every
\* execution Athena accepted ends
LiveSpec ==
    LiveInit /\ [][LiveNext]_vars /\ WF_vars(AnalysisRuns) /\ WF_vars(AthenaFinish)

(***************************************************************************)
(* The calendar, written out: the day before each day the schedules touch, *)
(* and its day of the week.                                                *)
(***************************************************************************)
DayBefore ==
    <<"2","0","2","3","-","1","2","-","2","9">> :> <<"2","0","2","3","-","1","2","-","2","8">> @@
    <<"2","0","2","3","-","1","2","-","3","0">> :> <<"2","0","2","3","-","1","2","-","2","9">> @@
    <<"2","0","2","3","-","1","2","-","3","1">> :> <<"2","0","2","3","-","1","2","-","3","0">> @@
    <<"2","0","2","4","-","0","1","-","0","1">> :> <<"2","0","2","3","-","1","2","-","3","1">> @@
    <<"2","0","2","4","-","0","1","-","1","3">> :> <<"2","0","2","4","-","0","1","-","1","2">> @@
    <<"2","0","2","4","-","0","1","-","1","4">> :> <<"2","0","2","4","-","0","1","-","1","3">> @@
    <<"2","0","2","4","-","0","1","-","1","5">> :> <<"2","0","2","4","-","0","1","-","1","4">> @@
    <<"2","0","2","4","-","0","1","-","1","6">> :> <<"2","0","2","4","-","0","1","-","1","5">> @@
    <<"2","0","2","4","-","0","2","-","2","7">> :> <<"2","0","2","4","-","0","2","-","2","6">> @@
    <<"2","0","2","4","-","0","2","-","2","8">> :> <<"2","0","2","4","-","0","2","-","2","7">> @@
    <<"2","0","2","4","-","0","2","-","2","9">> :> <<"2","0","2","4","-","0","2","-","2","8">> @@
    <<"2","0","2","4","-","0","3","-","0","1">> :> <<"2","0","2","4","-","0","2","-","2","9">> @@
    <<"2","0","2","5","-","0","2","-","2","7">> :> <<"2","0","2","5","-","0","2","-","2","6">> @@
    <<"2","0","2","5","-","0","2","-","2","8">> :> <<"2","0","2","5","-","0","2","-","2","7">> @@
    <<"2","0","2","5","-","0","3","-","0","1">> :> <<"2","0","2","5","-","0","2","-","2","8">> @@
    <<"2","0","2","5","-","0","3","-","0","2">> :> <<"2","0","2","5","-","0","3","-","0","1">>

DayName ==
    <<"2","0","2","3","-","1","2","-","2","9">> :> "Fri" @@
    <<"2","0","2","3","-","1","2","-","3","0">> :> "Sat" @@
    <<"2","0","2","3","-","1","2","-","3","1">> :> "Sun" @@
    <<"2","0","2","4","-","0","1","-","0","1">> :> "Mon" @@
    <<"2","0","2","4","-","0","1","-","1","3">> :> "Sat" @@
    <<"2","0","2","4","-","0","1","-","1","4">> :> "Sun" @@
    <<"2","0","2","4","-","0","1","-","1","5">> :> "Mon" @@
    <<"2","0","2","4","-","0","1","-","1","6">> :> "Tue" @@
    <<"2","0","2","4","-","0","2","-","2","7">> :> "Tue" @@
    <<"2","0","2","4","-","0","2","-","2","8">> :> "Wed" @@
    <<"2","0","2","4","-","0","2","-","2","9">> :> "Thu" @@
    <<"2","0","2","4","-","0","3","-","0","1">> :> "Fri" @@
    <<"2","0","2","5","-","0","2","-","2","7">> :> "Thu" @@
    <<"2","0","2","5","-","0","2","-","2","8">> :> "Fri" @@
    <<"2","0","2","5","-","0","3","-","0","1">> :> "Sat" @@
    <<"2","0","2","5","-","0","3","-","0","2">> :> "Sun"

\* the event carries a run_date that is a day of the calendar
ValidEvent(e) ==
    e.has_run_date /\ Len(e.run_date) >= 10 /\ DatePart(e) \in DOMAIN DayName
        /\ DayBefore[DatePart(e)] \in DOMAIN DayBefore

\* business_date and prior_business_date of an event, as "YYYY-MM-DD"
BusinessDate(e) == DayBefore[DatePart(e)]
PriorBusinessDate(e) == DayBefore[BusinessDate(e)]

YearOf(d) == SubSeq(d, 1, 4)
MonthOf(d) == SubSeq(d, 6, 7)
DayOf(d) == SubSeq(d, 9, 10)

IsWeekendDay(d) == DayName[d] \in {"Sat", "Sun"}

\* the storage layout: raw/year={Y}/month={M}/day={D}/rates.json and
\* processed/pair={PAIR}/year={Y}/month={M}/day={D}/data.json
RawPartition(d) ==
    <<"raw/", "year=">> \o YearOf(d) \o <<"/month=">> \o MonthOf(d)
        \o <<"/day=">> \o DayOf(d)

RawKey(d) == RawPartition(d) \o <<"/rates.json">>

ProcessedPartition(pair, d) ==
    <<"processed/", "pair=">> \o pair \o <<"/year=">> \o YearOf(d)
        \o <<"/month=">> \o MonthOf(d) \o <<"/day=">> \o DayOf(d)

ProcessedKey(pair, d) == ProcessedPartition(pair, d) \o <<"/data.json">>

Range(f) == {f[i] : i \in DOMAIN f}

(***************************************************************************)
(* Properties.                                                             *)
(***************************************************************************)
Running(j) == job = j /\ pc # "done"
Ended(j) == job = j /\ pc = "done"

\* the execution of each of the two queries, in the order they are submitted
ExecutionOf(q) == IF q = "today" THEN 1 ELSE 2

\* C1: an Analysis run whose business_date is a Saturday or Sunday returns the
\* skip result and, from invocation to return, submits no query, polls none,
\* fetches no result and publishes no metric.
C1_WeekendSkips ==
    (job = "analysis" /\ ValidEvent(event) /\ IsWeekendDay(BusinessDate(event))) =>
        /\ athena = <<>>
        /\ \A q \in Queries :
            /\ calls.start_query_execution[q] = 0
            /\ calls.get_query_results[q] = 0
        /\ loc.observed = <<>>
        /\ calls.put_metric_data = 0
        /\ published = <<>>
        /\ pc \in {"get_run_date", "done"}
        /\ pc = "done" => result = SkipResult

\* a run for a Saturday business_date has returned the skip result
C1_Witness ==
    /\ Ended("analysis") /\ ValidEvent(event)
    /\ DayName[BusinessDate(event)] = "Sat"
    /\ result = SkipResult

\* C2: in an Analysis run a query that ended FAILED or CANCELLED makes the run
\* end in an error with no metric published; a metric is published at most
\* once, and only after both queries were seen SUCCEEDED and both scalars
\* were extracted.
C2_NoPartialMetric ==
    job = "analysis" =>
        /\ Len(published) <= 1
        /\ calls.put_metric_data = Len(published)
        /\ published # <<>> =>
            /\ Len(athena) = 2
            /\ \A id \in DOMAIN athena : athena[id].state = "SUCCEEDED"
            /\ loc.got = Queries
            /\ \A q \in Queries : calls.get_query_results[q] = 1
        /\ (\E id \in DOMAIN athena : athena[id].state \in {"FAILED", "CANCELLED"}) =>
            /\ published = <<>>
            /\ pc \in {"wait_for_query", "check_status", "done"}
            /\ pc = "done" => result.kind = "raise"

\* today's rate was extracted, yesterday's query was cancelled, the run raised
C2_Witness ==
    /\ Ended("analysis")
    /\ Len(athena) = 2
    /\ athena[1].state = "SUCCEEDED" /\ athena[2].state = "CANCELLED"
    /\ loc.got = {"today"}
    /\ result.kind = "raise"
    /\ published = <<>>

\* an Analysis run ended on a query that Athena reported failed or cancelled
QueryFailure ==
    /\ Ended("analysis")
    /\ athena # <<>>
    /\ athena[Len(athena)].state \in {"FAILED", "CANCELLED"}

PayloadValid(data) ==
    /\ {"timestamp", "source", "quotes"} \subseteq data.fields
    /\ \A i \in 1..Len(TARGET_CURRENCIES) :
        \E j \in 1..Len(data.quotes) :
            data.quotes[j].pair = <<BASE_CURRENCY, TARGET_CURRENCIES[i]>>

\* C4: Ingest writes to the bucket only after the secret was retrieved, the
\* rates were fetched, the payload validated and the run_date resolved; a run
\* in which one of these fails ends in an error and leaves the bucket as it
\* was.
C4_WriteAfterChecks ==
    job = "ingest" =>
        /\ (store # store0 \/ puts # <<>>) =>
            /\ calls.get_parameter = 1 /\ loc.api_key # ""
            /\ calls.urlopen = 1
            /\ PayloadValid(loc.fx_data)
            /\ ValidEvent(event)
            /\ Len(puts) = 1
        /\ (pc = "done" /\ result.kind = "raise") => (store = store0 /\ puts = <<>>)
        /\ (pc = "done" /\ calls.urlopen = 1 /\ loc.fx_data # NoData
                /\ ~PayloadValid(loc.fx_data)) =>
            (result.kind = "raise" /\ result.type = "ValueError" /\ store = store0)
        /\ (pc = "done" /\ ~ValidEvent(event)) => (result.kind = "raise" /\ store = store0)

\* a payload without "quotes" was fetched and the run failed on it
C4_Witness ==
    /\ Ended("ingest")
    /\ "quotes" \notin loc.fx_data.fields /\ "timestamp" \in loc.fx_data.fields
    /\ result = Raised("ValueError", <<"Missing required field: ", "quotes">>)
    /\ store = store0

\* the events of the schedule that name a day of the calendar
ValidEvents == {e \in Events(schedule) : ValidEvent(e)}

\* C5: whatever the clock time and offset in run_date, the three lambdas
\* resolve business_date as the calendar day before run_date's date, and
\* Analysis resolves prior_business_date as the day before that; the raw key
\* Ingest writes is the raw key Transform reads, and the year/month/day
\* partition of the keys Transform writes is the partition of Analysis's
\* query for today's rate.
C5_SameBusinessDate ==
    /\ (job = "ingest" /\ loc.s3_key # <<>>) =>
        /\ ValidEvent(event)
        /\ loc.s3_key = RawKey(BusinessDate(event))
        /\ \A k \in Range(puts) : k = RawKey(BusinessDate(event))
    /\ (job = "transform" /\ loc.s3_key # <<>>) =>
        /\ ValidEvent(event)
        /\ loc.s3_key = RawKey(BusinessDate(event))
        /\ \A k \in Range(puts) :
            \E i \in 1..Len(loc.data.quotes) :
                k = ProcessedKey(loc.data.quotes[i].pair, BusinessDate(event))
    /\ (job = "analysis" /\ loc.year # <<>>) =>
        /\ ValidEvent(event)
        /\ <<loc.year, loc.month, loc.day>> =
               <<YearOf(BusinessDate(event)), MonthOf(BusinessDate(event)),
                 DayOf(BusinessDate(event))>>
        /\ <<loc.year_pd, loc.month_pd, loc.day_pd>> =
               <<YearOf(PriorBusinessDate(event)), MonthOf(PriorBusinessDate(event)),
                 DayOf(PriorBusinessDate(event))>>
        /\ Len(athena) >= 1 =>
               <<athena[1].query.year, athena[1].query.month, athena[1].query.day>> =
                   <<YearOf(BusinessDate(event)), MonthOf(BusinessDate(event)),
                     DayOf(BusinessDate(event))>>
        /\ Len(athena) >= 2 =>
               <<athena[2].query.year, athena[2].query.month, athena[2].query.day>> =
                   <<YearOf(PriorBusinessDate(event)), MonthOf(PriorBusinessDate(event)),
                     DayOf(PriorBusinessDate(event))>>
    /\ job = "none" => \A e1 \in ValidEvents : \A e2 \in ValidEvents :
        DatePart(e1) = DatePart(e2) =>
            LET i == ingest_get_run_date(e1)
                t == transform_get_run_date(e2)
                a == analysis_get_run_date(e2)
                w == transform_write_key(PAIR, t.year, t.month, t.day)
                q == rate_query(a.year, a.month, a.day)
            IN  /\ ingest_build_s3_key(i.year, i.month, i.day) =
                       transform_build_s3_key(t.year, t.month, t.day)
                /\ PartitionValue(w, "/year=", "/month=") = q.year
                /\ PartitionValue(w, "/month=", "/day=") = q.month
                /\ PartitionValue(w, "/day=", "/data.json") = q.day

\* Analysis, run for 1 March 2024 at 00:30 +09:00, has submitted its queries
\* for 29 and 28 February
C5_Witness ==
    /\ job = "analysis" /\ Len(athena) = 2
    /\ event.run_date =
           <<"2","0","2","4","-","0","3","-","0","1", "T", "00:30:00", "+09:00">>
    /\ athena[1].query.day = <<"2", "9">> /\ athena[1].query.month = <<"0", "2">>
    /\ athena[2].query.day = <<"2", "8">>

\* the objects of the bucket under a partition
ObjectsUnder(partition) == {k \in DOMAIN store : StartsWith(k, partition)}

\* the body of the raw object a single Ingest run leaves for a payload
RawBodyOf(payload) ==
    [ContentType |-> "application/json",
     json |-> [fields |-> {"timestamp", "source", "quotes"},
               timestamp |-> payload.timestamp, source |-> payload.source,
               quotes |-> payload.quotes]]

\* C6: a rerun of Ingest or Transform for the same business_date with the
\* same input leaves the bucket exactly as the run before left it; the bucket
\* never holds more than one raw object per date nor more than one normalized
\* object per (pair, date), and what it holds is what the last run wrote.
C6_IdempotentOverwrite ==
    /\ (job = "ingest" /\ pc = "return"
            /\ lastIngest[DatePart(event)] = loc.fx_data) => store = store0
    /\ (job = "transform" /\ pc = "normalize_and_write"
            /\ loc.i > Len(loc.data.quotes)
            /\ lastTransform[DatePart(event)] = loc.data) => store = store0
    /\ \A d \in schedule :
        /\ Cardinality(ObjectsUnder(RawPartition(DayBefore[d]))) <= 1
        /\ lastIngest[d] # NoData =>
            /\ ObjectsUnder(RawPartition(DayBefore[d])) = {RawKey(DayBefore[d])}
            /\ ~(job = "ingest" /\ pc = "return" /\ DatePart(event) = d) =>
                   store[RawKey(DayBefore[d])] = RawBodyOf(lastIngest[d])
        /\ \A pair \in {<<"USD", "JPY">>, <<"USD", "EUR">>} :
            Cardinality(ObjectsUnder(ProcessedPartition(pair, DayBefore[d]))) <= 1
        /\ lastTransform[d] \notin {NoData, PartialRun} =>
            \A i \in 1..Len(lastTransform[d].quotes) :
                LET quote == lastTransform[d].quotes[i]
                    key   == ProcessedKey(quote.pair, DayBefore[d])
                IN  /\ ObjectsUnder(ProcessedPartition(quote.pair, DayBefore[d])) = {key}
                    /\ json_loads(store[key]).rate = quote.rate

\* an Ingest rerun and a Transform rerun with unchanged input have finished
\* their writes
C6_Witness ==
    /\ job = "transform" /\ pc = "normalize_and_write"
    /\ loc.i > Len(loc.data.quotes) /\ Len(puts) = 2
    /\ lastTransform[DatePart(event)] = loc.data
    /\ lastIngest[DatePart(event)] # NoData
    /\ event.run_date[13] = "+09:00"

\* the keys whose object the current run created or changed
KeysChanged ==
    {k \in DOMAIN store : k \notin DOMAIN store0 \/ store[k] # store0[k]}

\* a Transform run has finished its loop, or has returned its result
TransformSucceeded ==
    /\ job = "transform"
    /\ \/ pc = "normalize_and_write" /\ loc.i > Len(loc.data.quotes)
       \/ pc = "done" /\ result.kind = "return"

\* C7: a successful Transform run writes exactly one normalized object per
\* entry of quotes, under the key of (pair, business_date), carrying the
\* pair, its rate, date = business_date as YYYY-MM-DD and market_open =
\* (business_date is Monday to Friday); files_written is the list of the keys
\* written.
C7_OneRecordPerQuote ==
    TransformSucceeded =>
        LET quotes == loc.data.quotes
            bd     == BusinessDate(event)
        IN  /\ Len(puts) = Len(quotes)
            /\ Cardinality(Range(puts)) = Len(quotes)
            /\ KeysChanged \subseteq Range(puts)
            /\ \A i \in 1..Len(quotes) :
                /\ puts[i] = ProcessedKey(quotes[i].pair, bd)
                /\ store[puts[i]] =
                       [ContentType |-> "application/json",
                        json |-> [pair        |-> quotes[i].pair,
                                  rate        |-> quotes[i].rate,
                                  date        |-> bd,
                                  market_open |-> DayName[bd] \in
                                      {"Mon", "Tue", "Wed", "Thu", "Fri"}]]
            /\ pc = "done" =>
                   result = [kind |-> "return", statusCode |-> 200,
                             files_written |-> puts]

\* Transform returned after writing the two records of a two-quote payload
\* for a Saturday
C7_Witness ==
    /\ Ended("transform") /\ result.kind = "return"
    /\ Len(loc.data.quotes) = 2 /\ Len(puts) = 2
    /\ DayName[BusinessDate(event)] = "Sat"

\* C8: each query of an Analysis run is submitted once and never again, the
\* wait returns only on a terminal state it has observed, and a result is
\* fetched only for a query observed SUCCEEDED, after its wait and before the
\* next query is submitted.
C8_SubmitPollFetch ==
    job = "analysis" =>
        /\ \A q \in Queries :
            /\ calls.start_query_execution[q] <= 1
            /\ calls.get_query_results[q] <= calls.start_query_execution[q]
            /\ calls.get_query_results[q] = 1 =>
                   athena[ExecutionOf(q)].state = "SUCCEEDED"
        /\ Len(athena) = calls.start_query_execution["today"]
                             + calls.start_query_execution["yesterday"]
        /\ calls.start_query_execution["yesterday"] = 1 =>
               calls.get_query_results["today"] = 1
        /\ pc = "wait_for_query" =>
            /\ \A i \in 1..Len(loc.observed) : loc.observed[i] \notin Terminal
            /\ calls.get_query_results[loc.which] = 0
        /\ pc = "check_status" =>
            /\ loc.status \in Terminal
            /\ loc.status = athena[loc.qid].state
            /\ loc.observed # <<>> /\ loc.observed[Len(loc.observed)] = loc.status
            /\ calls.get_query_results[loc.which] = 0
        /\ pc = "get_single_value" =>
            /\ loc.status = "SUCCEEDED"
            /\ athena[loc.qid].state = "SUCCEEDED"
        /\ (pc = "done" /\ athena # <<>>) =>
            /\ loc.status \in Terminal
            /\ loc.status \in {"FAILED", "CANCELLED"} =>
                   calls.get_query_results[loc.which] = 0

\* both queries were submitted, waited for over several polls and fetched
C8_Witness ==
    /\ Ended("analysis")
    /\ \A q \in Queries :
        calls.start_query_execution[q] = 1 /\ calls.get_query_results[q] = 1
    /\ Len(loc.observed) = MaxPolls
    /\ result.kind = "return"

\* C9: with Athena ending every execution it accepted, every Analysis run
\* ends (skip result, summary or error), and its wait loop is left only on a
\* terminal state.
C9_RunTerminates ==
    /\ (Running("analysis") ~> Ended("analysis"))
    /\ [][(job = "analysis" /\ pc = "wait_for_query" /\ pc' # "wait_for_query") =>
            (athena[loc.qid].state \in Terminal
                /\ loc'.status = athena[loc.qid].state
                /\ pc' = "check_status")]_vars
    /\ [](Ended("analysis") => result.kind \in {"return", "raise"})

\* an Analysis run ended with its summary after a wait of MaxPolls polls
C9_Witness ==
    /\ Ended("analysis")
    /\ result.kind = "return" /\ result # SkipResult
    /\ Len(loc.observed) = MaxPolls /\ Len(published) = 1
    /\ loc.observed[1] = "RUNNING"

\* Transform last completed for run date d, on quotes holding PAIR at a
\* non-zero rate (so Ingest had written that raw object before)
PipelineDone(d) ==
    /\ d \in schedule
    /\ lastIngest[d] # NoData
    /\ lastTransform[d] \notin {NoData, PartialRun}
    /\ \E i \in 1..Len(lastTransform[d].quotes) :
        /\ lastTransform[d].quotes[i].pair = PAIR
        /\ lastTransform[d].quotes[i].rate # 0

\* C10: for a weekday business_date, with Ingest and Transform completed for
\* business_date and prior_business_date (PAIR quoted at a non-zero rate) and
\* every query Analysis submitted SUCCEEDED, both query results hold a data
\* row and Analysis publishes exactly one metric.
C10_WeekdayMetric ==
    (/\ Ended("analysis") /\ ValidEvent(event)
     /\ ~IsWeekendDay(BusinessDate(event))
     /\ PipelineDone(DatePart(event))
     /\ PipelineDone(BusinessDate(event))
     /\ \A id \in DOMAIN athena : athena[id].state = "SUCCEEDED") =>
        /\ loc.got = Queries
        /\ Len(published) = 1

====
